---------------------------- MODULE Spec2Model ----------------------------
(***************************************************************************)
(* Model of the SinoWealth 8051 dumper's target-side debug engine          *)
(* (src/src/jtag.cpp) and of the RPC wrappers that drive it                *)
(* (src/src/rpc.cpp).                                                      *)
(*                                                                         *)
(* Every engine function is an operator on an engine record                *)
(*     [mode, modes, out, idle]                                            *)
(* mode  : m_mode                                                          *)
(* modes : the value m_mode had on entry, then every value assigned to it  *)
(* out   : the pin events the call has produced so far, in program order   *)
(* idle  : the level the target holds TDO at while it presents no data     *)
(* A pin event is a record [k, pin, v]:                                    *)
(*   k = "W"  setBit / clrBit of pin, v the level written                  *)
(*   k = "R"  getBit of pin, v the level read                              *)
(*   k = "D"  a change of the pin's direction, v = 1 output, v = 0 input   *)
(*   k = "toggleLH", "toggleHL"  one of connect()'s calibration loops:     *)
(*            v iterations of (pin low, pin high), resp. (pin high, low)   *)
(*   k = "call"  entry of the function named in pin (v its width, or 0)    *)
(* The levels the target drives on TDO and the level of Vref are inputs.   *)
(***************************************************************************)
EXTENDS Integers, Sequences, FiniteSets, TLC

\* ------------------------------------------------------------------ bounds
\* longest buffer a flash read is asked for
MaxLen == 4
\* Vref polls that read low which the trace of one connect() records
MaxPolls == 2
\* passes of readFlashJTAG's read loop that are followed when the loop is
\* taken pass by pass
MaxPasses == 258

\* -------------------------------------------------------- program constants
CONNECT_TMS_TOGGLES == 165
CONNECT_TDI_TOGGLES == 105
CONNECT_TCK_TOGGLES == 90
CONNECT_FINAL_TOGGLES == 25600
RESET_JTAG_STEPS == 35
TAP_RESET_STEPS == 8
\* the buffer length rpc_read16ICP and rpc_read16JTAG pass
READ16_LEN == 16
\* CHIP_FLASH_SIZE above which readFlashJTAG injects the bank preamble
BANKED_ABOVE == 65536

\* jtag.h is not among the sources: the values of the Mode enumeration (the
\* magic byte startMode() emits), the ICP command codes, JTAG_IDCODE and the
\* width of the instruction register are taken from the specification.
MAGIC_ICP == 150
MAGIC_JTAG == 165
JTAG_IDCODE == 1
IR_BITS == 4
ICP_SET_IB_OFFSET_L == 64
ICP_SET_IB_OFFSET_H == 65
ICP_GET_IB_OFFSET == 67
ICP_READ_FLASH == 68
ICP_PING == 73
ICP_READ_CUSTOM_BLOCK == 74
ICP_SET_XPAGE == 76

Modes == {"DISCONNECTED", "READY", "ICP", "JTAG", "ERROR"}
Pins == {"VREF", "TDO", "TDI", "TMS", "TCK"}
OutPins == {"TDI", "TMS", "TCK"}

\* ------------------------------------------------------------- arithmetic
Pow2(n) == 2 ^ n
Bit(x, i) == (x \div Pow2(i)) % 2
\* C's conversion of an integer to bool
ToBool(x) == IF x = 0 THEN 0 ELSE 1
\* x & m for a mask m with a single bit set (m = 2^i)
AndMask(x, i) == Bit(x, i) * Pow2(i)

\* the concatenation of pieces[lo..hi], a sequence of sequences
RECURSIVE FlatRange(_, _, _)
FlatRange(pieces, lo, hi) ==
    IF lo > hi THEN <<>>
    ELSE IF lo = hi THEN pieces[lo]
    ELSE LET mid == (lo + hi) \div 2
         IN FlatRange(pieces, lo, mid) \o FlatRange(pieces, mid + 1, hi)

Flat(pieces) == FlatRange(pieces, 1, Len(pieces))

\* ------------------------------------------------------------- pin layer
W(pin, v) == [k |-> "W", pin |-> pin, v |-> v]
R(pin, v) == [k |-> "R", pin |-> pin, v |-> v]
D(pin, v) == [k |-> "D", pin |-> pin, v |-> v]
Call(fn, v) == [k |-> "call", pin |-> fn, v |-> v]

setBit(pin) == W(pin, 1)
clrBit(pin) == W(pin, 0)
putBit(pin, b) == IF b = 1 THEN setBit(pin) ELSE clrBit(pin)

\* the number of times the body of  for (uintW_t n = 0; n < limit; ++n)
\* runs; -1 when the counter wraps before it reaches limit (it never ends)
ForCount(width, limit) == IF limit < Pow2(width) THEN limit ELSE -1

\* a calibration loop of connect(): count times (pin low, pin high)
ToggleLH(pin, width, count) ==
    [k |-> "toggleLH", pin |-> pin, v |-> ForCount(width, count)]
\* count times (pin high, pin low)
ToggleHL(pin, width, count) ==
    [k |-> "toggleHL", pin |-> pin, v |-> ForCount(width, count)]

\* ------------------------------------------------------ bit/framing layer
\* JTAG::pulseClock
pulseClock == <<Call("pulseClock", 0), setBit("TCK"), clrBit("TCK")>>

\* JTAG::nextState(bool tms); b is the level the target drives on TDO,
\* which is also the value returned
nextState(tms, b) ==
    <<Call("nextState", 0), putBit("TMS", tms), setBit("TCK"), R("TDO", b),
      clrBit("TCK")>>

\* JTAG::nextState(bool tms, bool out)
nextStateOut(tms, out, b) == <<putBit("TDI", out)>> \o nextState(tms, b)

\* sendICPData without the filler pulse
sendICPDataNoFiller(value) ==
    <<Call("sendICPData", 0)>>
    \o Flat([i \in 1..8 |-> <<putBit("TDI", ToBool(AndMask(value, 8 - i)))>>
                            \o pulseClock])
    \o <<clrBit("TDI")>>

\* JTAG::sendICPData
sendICPData(value) ==
    <<Call("sendICPData", 0)>>
    \o Flat([i \in 1..8 |-> <<putBit("TDI", ToBool(AndMask(value, 8 - i)))>>
                            \o pulseClock])
    \o pulseClock
    \o <<clrBit("TDI")>>

\* JTAG::receiveICPData; smp[i] is the level of TDO after the i-th pulse
receiveICPData(smp) ==
    <<Call("receiveICPData", 0)>>
    \o Flat([i \in 1..8 |-> pulseClock \o <<R("TDO", smp[i])>>])
    \o pulseClock

\* a receive that or-s the samples in from the most significant bit down
RECURSIVE receiveICPValueMsbFirst(_, _, _)
receiveICPValueMsbFirst(smp, i, value) ==
    IF i > 8 THEN value
    ELSE receiveICPValueMsbFirst(smp, i + 1,
                                 IF smp[i] = 1 /\ Bit(value, 8 - i) = 0
                                 THEN value + Pow2(8 - i) ELSE value)

\* the value receiveICPData returns: mask m = 1 << (i-1) is or-ed in when
\* the i-th sample is high
RECURSIVE receiveICPValue(_, _, _)
receiveICPValue(smp, i, value) ==
    IF i > 8 THEN value
    ELSE receiveICPValue(smp, i + 1,
                         IF smp[i] = 1 /\ Bit(value, i - 1) = 0
                         THEN value + Pow2(i - 1) ELSE value)

\* the N-bit shift shared by sendInstruction and sendData: least
\* significant bit first, the last bit with TMS = 1
shiftBits(N, value, b) ==
    Flat([n \in 1..N |->
            nextStateOut(IF n = N THEN 1 ELSE 0, Bit(value, n - 1), b)])

\* JTAG::sendInstruction
sendInstruction(value, b) ==
    <<Call("sendInstruction", IR_BITS)>>
    \o nextState(1, b) \o nextState(1, b) \o nextState(0, b) \o nextState(0, b)
    \o shiftBits(IR_BITS, value, b)
    \o nextState(1, b) \o nextState(0, b)

\* JTAG::sendData<N>
sendData(N, value, b) ==
    <<Call("sendData", N)>>
    \o nextState(1, b) \o nextState(0, b) \o nextState(0, b)
    \o shiftBits(N, value, b)
    \o nextState(1, b) \o nextState(0, b)

\* JTAG::receiveData<N, T>; smp[n] is the level of TDO in the n-th shift
receiveData(N, smp, b) ==
    <<Call("receiveData", N)>>
    \o nextState(1, b) \o nextState(0, b) \o nextState(0, b)
    \o Flat([n \in 1..N |-> nextState(IF n = N THEN 1 ELSE 0, smp[n])])
    \o nextState(1, b) \o nextState(0, b)

\* the value receiveData returns: the n-th sampled bit is bit n-1
RECURSIVE receiveDataValue(_, _, _)
receiveDataValue(N, smp, n) ==
    IF n > N THEN 0
    ELSE smp[n] * Pow2(n - 1) + receiveDataValue(N, smp, n + 1)

\* reverseBits: bit i of the byte becomes bit 7 - i
RECURSIVE reverseBitsFrom(_, _)
reverseBitsFrom(value, i) ==
    IF i > 7 THEN 0
    ELSE Bit(value, i) * Pow2(7 - i) + reverseBitsFrom(value, i + 1)

reverseBits(value) == reverseBitsFrom(value, 0)

\* --------------------------------------------------- protocol/mode layer
emit(e, p) == [e EXCEPT !.out = @ \o p]
setMode(e, m) == [e EXCEPT !.mode = m, !.modes = Append(@, m)]

\* uint8_t(m_mode) for the two modes startMode() is called in
Magic(mode) == IF mode = "ICP" THEN MAGIC_ICP ELSE MAGIC_JTAG

\* startMode whose last pulse leaves TCK high
startModeEndsHigh(mode) ==
    <<Call("startMode", 0), clrBit("TCK")>>
    \o Flat([i \in 1..8 |->
               <<putBit("TDI", ToBool(AndMask(Magic(mode), 8 - i))),
                 setBit("TCK"), clrBit("TCK")>>])
    \o <<setBit("TCK"), clrBit("TCK")>>
    \o <<setBit("TCK")>>

\* JTAG::startMode
startMode(mode) ==
    <<Call("startMode", 0), clrBit("TCK")>>
    \o Flat([i \in 1..8 |->
               <<putBit("TDI", ToBool(AndMask(Magic(mode), 8 - i))),
                 setBit("TCK"), clrBit("TCK")>>])
    \o <<setBit("TCK"), clrBit("TCK")>>
    \o <<setBit("TCK"), clrBit("TCK")>>

\* reset() that leaves TCK as it is when it leaves ICP mode
resetKeepsTck(e) ==
    IF e.mode = "ERROR" THEN e
    ELSE IF e.mode = "JTAG"
    THEN setMode(emit(e, <<Call("reset", 0)>>
                         \o Flat([n \in 1..RESET_JTAG_STEPS |->
                                    nextState(1, e.idle)])
                         \o <<setBit("TCK"), clrBit("TMS")>>),
                 "READY")
    ELSE setMode(emit(e, <<Call("reset", 0), setBit("TMS"), clrBit("TMS")>>),
                 "READY")

\* JTAG::reset
reset(e) ==
    IF e.mode = "ERROR" THEN e
    ELSE IF e.mode = "JTAG"
    THEN setMode(emit(e, <<Call("reset", 0)>>
                         \o Flat([n \in 1..RESET_JTAG_STEPS |->
                                    nextState(1, e.idle)])
                         \o <<setBit("TCK"), clrBit("TMS")>>),
                 "READY")
    ELSE setMode(emit(e, <<Call("reset", 0), setBit("TCK"), setBit("TMS"),
                           clrBit("TMS")>>),
                 "READY")

\* JTAG::pingICP
pingICP(e) ==
    IF e.mode # "ICP" THEN e
    ELSE emit(e, sendICPData(ICP_PING) \o sendICPData(255))

\* the scan sequence switchMode() issues on entry into JTAG mode
JtagInit[b \in 0..1] ==
    Flat([n \in 1..TAP_RESET_STEPS |-> nextState(1, b)])
    \o sendInstruction(2, b)
    \o sendData(4, 4, b)
    \o sendInstruction(3, b)
    \o sendData(23, 4206592, b)
    \o sendData(23, 4202496, b)
    \o sendData(23, 4194304, b)
    \o sendData(23, 6488064, b)
    \o sendData(23, 6750208, b)
    \o sendData(23, 7012352, b)
    \o sendData(23, 7274496, b)
    \o sendData(23, 7536640, b)
    \o sendData(23, 7798784, b)
    \o sendData(23, 8060928, b)
    \o sendData(23, 8323072, b)
    \o sendInstruction(2, b)
    \o sendData(4, 1, b)
    \o sendInstruction(12, b)

\* switchMode() that does not reset() before it enters the new mode
switchModeNoReset(e, mode) ==
    LET e2 == setMode(e, mode)
        e3 == emit(e2, startMode(e2.mode))
    IN IF e3.mode = "ICP" THEN pingICP(e3)
       ELSE IF e3.mode = "JTAG" THEN emit(e3, JtagInit[e3.idle])
       ELSE e3

\* switchMode() that runs the initialisation of the new mode before
\* startMode()
switchModeInitFirst(e, mode) ==
    LET e1 == IF e.mode # "READY" THEN reset(e) ELSE e
        e2 == setMode(e1, mode)
        e3 == IF e2.mode = "ICP" THEN pingICP(e2)
              ELSE IF e2.mode = "JTAG" THEN emit(e2, JtagInit[e2.idle])
              ELSE e2
    IN emit(e3, startMode(e3.mode))

\* JTAG::switchMode, after the test  m_mode == mode
switchModeEnter(e, mode) ==
    LET e1 == IF e.mode # "READY" THEN reset(e) ELSE e
        e2 == setMode(e1, mode)
        e3 == emit(e2, startMode(e2.mode))
    IN IF e3.mode = "ICP" THEN pingICP(e3)
       ELSE IF e3.mode = "JTAG" THEN emit(e3, JtagInit[e3.idle])
       ELSE e3

\* switchMode() without the test  m_mode == mode
switchModeAlways(e, mode) ==
    switchModeEnter(emit(e, <<Call("switchMode", 0)>>), mode)

\* JTAG::switchMode
switchMode(e, mode) ==
    IF e.mode = mode THEN e
    ELSE switchModeEnter(emit(e, <<Call("switchMode", 0)>>), mode)

\* disconnect() that resets the target after entering ICP mode
disconnectThenReset(e) == reset(switchMode(e, "ICP"))

\* JTAG::disconnect
disconnect(e) == switchMode(e, "ICP")

\* connect() whose last loop counts with a uint8_t
connectNarrowCounter(e) ==
    LET p == <<R("VREF", 1),
               D("TDI", 1), D("TMS", 1), D("TCK", 1),
               clrBit("TCK"), clrBit("TDI"), clrBit("TMS"),
               setBit("TCK"), setBit("TDI"), setBit("TMS"),
               clrBit("TCK"), setBit("TCK"),
               ToggleLH("TMS", 8, CONNECT_TMS_TOGGLES),
               ToggleLH("TDI", 8, CONNECT_TDI_TOGGLES),
               ToggleLH("TCK", 8, CONNECT_TCK_TOGGLES),
               ToggleLH("TMS", 16, CONNECT_FINAL_TOGGLES),
               clrBit("TMS")>>
        e1 == setMode(emit(e, p), "ICP")
        e2 == emit(e1, startMode(e1.mode))
        e3 == emit(e2, <<ToggleHL("TCK", 8, CONNECT_FINAL_TOGGLES)>>)
    IN reset(e3)

\* JTAG::connect, from the read of Vref that returned high
connectAttach(e) ==
    LET p == <<R("VREF", 1),
               D("TDI", 1), D("TMS", 1), D("TCK", 1),
               clrBit("TCK"), clrBit("TDI"), clrBit("TMS"),
               setBit("TCK"), setBit("TDI"), setBit("TMS"),
               clrBit("TCK"), setBit("TCK"),
               ToggleLH("TMS", 8, CONNECT_TMS_TOGGLES),
               ToggleLH("TDI", 8, CONNECT_TDI_TOGGLES),
               ToggleLH("TCK", 8, CONNECT_TCK_TOGGLES),
               ToggleLH("TMS", 16, CONNECT_FINAL_TOGGLES),
               clrBit("TMS")>>
        e1 == setMode(emit(e, p), "ICP")
        e2 == emit(e1, startMode(e1.mode))
        e3 == emit(e2, <<ToggleHL("TCK", 16, CONNECT_FINAL_TOGGLES)>>)
    IN reset(e3)


\* ------------------------------------------------------------- the target
\* What the target drives on TDO is an input of the engine.  An image is
\* one behaviour of the target: the byte it presents in the k-th data slot
\* of a flash read and the level it holds TDO at otherwise.
Images == {1, 2}
ImageIdle(img) == img - 1
TargetByte(img, k) ==
    IF img = 1 THEN (17 * (k + 1)) % 256 ELSE (165 + 40 * k) % 256

\* the 36 levels the target presents during read cycle k of readFlashJTAG:
\* the byte, most significant bit first, in the eight data shifts
TargetCycle(img, k) ==
    [j \in 1..36 |-> IF j \in 26..33 THEN Bit(TargetByte(img, k), 33 - j)
                     ELSE ImageIdle(img)]

\* the 8 levels the target presents during ICP receive frame k
TargetFrame(img, k) == [i \in 1..8 |-> Bit(TargetByte(img, k), i - 1)]

\* ------------------------------------------------------------ flash reads
\* JTAG::readFlashICP: the engine record after the call, and the stores
\* buffer[idx] = val it made, in order
RECURSIVE icpReceiveLoop(_, _, _, _)
icpReceiveLoop(acc, n, bufferSize, img) ==
    IF n < bufferSize
    THEN LET smp == TargetFrame(img, n)
         IN icpReceiveLoop(
                [out |-> acc.out \o receiveICPData(smp),
                 stores |-> Append(acc.stores,
                                   [idx |-> n,
                                    val |-> receiveICPValue(smp, 1, 0)])],
                (n + 1) % 256, bufferSize, img)
    ELSE acc

\* readFlashICP that sends the 0x46 0xFE 0xFF prefix only to chip type 4
readFlashICPNoPrefix(e, chipType, bufferSize, address, customBlock, img) ==
    LET e1 == switchMode(e, "ICP")
        prelude == IF chipType = 4
                   THEN sendICPData(70) \o sendICPData(254) \o sendICPData(255)
                   ELSE <<>>
        offset == sendICPData(ICP_SET_IB_OFFSET_L)
                  \o sendICPData(address % 256)
                  \o sendICPData(ICP_SET_IB_OFFSET_H)
                  \o sendICPData((address \div 256) % 256)
        xpage == IF chipType = 4 \/ chipType = 7
                 THEN sendICPData(ICP_SET_XPAGE)
                      \o sendICPData((address \div 65536) % 256)
                 ELSE <<>>
        cmd == sendICPData(IF customBlock THEN ICP_READ_CUSTOM_BLOCK
                           ELSE ICP_READ_FLASH)
        e2 == emit(e1, <<Call("readFlashICP", 0)>> \o prelude \o offset
                       \o xpage \o cmd)
        acc == icpReceiveLoop([out |-> e2.out, stores |-> <<>>], 0,
                              bufferSize, img)
    IN [e |-> reset([e2 EXCEPT !.out = acc.out]), stores |-> acc.stores,
        ret |-> 1]

\* JTAG::readFlashICP
readFlashICP(e, chipType, bufferSize, address, customBlock, img) ==
    LET e1 == switchMode(e, "ICP")
        prelude == IF chipType # 1
                   THEN sendICPData(70) \o sendICPData(254) \o sendICPData(255)
                   ELSE <<>>
        offset == sendICPData(ICP_SET_IB_OFFSET_L)
                  \o sendICPData(address % 256)
                  \o sendICPData(ICP_SET_IB_OFFSET_H)
                  \o sendICPData((address \div 256) % 256)
        xpage == IF chipType = 4 \/ chipType = 7
                 THEN sendICPData(ICP_SET_XPAGE)
                      \o sendICPData((address \div 65536) % 256)
                 ELSE <<>>
        cmd == sendICPData(IF customBlock THEN ICP_READ_CUSTOM_BLOCK
                           ELSE ICP_READ_FLASH)
        e2 == emit(e1, <<Call("readFlashICP", 0)>> \o prelude \o offset
                       \o xpage \o cmd)
        acc == icpReceiveLoop([out |-> e2.out, stores |-> <<>>], 0,
                              bufferSize, img)
    IN [e |-> reset([e2 EXCEPT !.out = acc.out]), stores |-> acc.stores,
        ret |-> 1]

\* a bank of 64 KiB instead of 32 KiB
jtagBank64K(address) == (address \div 65536) % 256

\* the address readFlashJTAG shifts and the bank it selects
jtagBank(address) == (address \div 32768) % 256

\* a fold that forgets to set bit 15
jtagFoldLow(address, bank) ==
    IF bank > 0 THEN address % 32768 ELSE address

jtagFold(address, bank) ==
    IF bank > 0 THEN (address % 32768) + 32768 ELSE address

\* a preamble that sends the bank operand without reversing its bits
jtagPreambleBankPlain(bank, b) ==
    sendData(8, reverseBits(117), b)
    \o sendData(8, reverseBits(183), b)
    \o sendData(8, reverseBits(85), b)
    \o sendData(8, reverseBits(117), b)
    \o sendData(8, reverseBits(182), b)
    \o sendData(8, bank, b)
    \o sendData(8, reverseBits(0), b)
    \o sendData(8, reverseBits(0), b)
    \o sendData(8, reverseBits(0), b)
    \o sendData(8, reverseBits(0), b)

\* the bank-select preamble of readFlashJTAG
jtagPreamble(bank, b) ==
    sendData(8, reverseBits(117), b)
    \o sendData(8, reverseBits(183), b)
    \o sendData(8, reverseBits(85), b)
    \o sendData(8, reverseBits(117), b)
    \o sendData(8, reverseBits(182), b)
    \o sendData(8, reverseBits(bank), b)
    \o sendData(8, reverseBits(0), b)
    \o sendData(8, reverseBits(0), b)
    \o sendData(8, reverseBits(0), b)
    \o sendData(8, reverseBits(0), b)

\* one pass of the read loop of readFlashJTAG; smp[j] is the level of TDO
\* in the j-th nextState of the pass
jtagReadCycle(address, smp) ==
    <<Call("readCycle", 0)>>
    \o nextState(1, smp[1]) \o nextState(0, smp[2]) \o nextState(0, smp[3])
    \o Flat([i \in 1..16 |->
               nextStateOut(0, ToBool(AndMask(address, 16 - i)), smp[3 + i])])
    \o nextStateOut(0, 0, smp[20]) \o nextStateOut(0, 0, smp[21])
    \o nextStateOut(0, 0, smp[22]) \o nextStateOut(0, 1, smp[23])
    \o nextStateOut(0, 0, smp[24]) \o nextStateOut(0, 0, smp[25])
    \o Flat([i \in 1..7 |-> nextStateOut(0, 0, smp[25 + i])])
    \o nextState(1, smp[33])
    \o nextState(1, smp[34]) \o nextState(0, smp[35]) \o nextState(0, smp[36])

\* the uint8_t data the pass assembles: seven times  data |= bit, data <<= 1
\* and then  data |= bit
RECURSIVE jtagCycleData(_, _, _)
jtagCycleData(smp, i, data) ==
    LET ored == IF data % 2 = 0 /\ smp[25 + i] = 1 THEN data + 1 ELSE data
    IN IF i = 8 THEN ored
       ELSE jtagCycleData(smp, i + 1, (ored * 2) % 256)

\* a read loop that stores the byte of every pass, the first at index 0
RECURSIVE jtagReadLoopKeepsFirst(_, _, _, _, _, _)
jtagReadLoopKeepsFirst(acc, n, bufferSize, address, cyc, img) ==
    IF n < bufferSize + 1
    THEN LET smp == TargetCycle(img, cyc)
             data == jtagCycleData(smp, 1, 0)
         IN jtagReadLoopKeepsFirst(
                [out |-> acc.out \o jtagReadCycle(address, smp),
                 stores |-> Append(acc.stores, [idx |-> n, val |-> data])],
                (n + 1) % 256, bufferSize, address + 1, cyc + 1, img)
    ELSE acc

\* the read loop:  for (uint8_t n = 0; n < bufferSize + 1; ++n, ++address)
\* cyc counts the passes made.  The addresses of AddrSamples are below
\* 2^24, so the 32-bit  ++address  never wraps and is a plain increment.
RECURSIVE jtagReadLoop(_, _, _, _, _, _)
jtagReadLoop(acc, n, bufferSize, address, cyc, img) ==
    IF n < bufferSize + 1
    THEN LET smp == TargetCycle(img, cyc)
             data == jtagCycleData(smp, 1, 0)
         IN jtagReadLoop(
                [out |-> acc.out \o jtagReadCycle(address, smp),
                 stores |-> IF n > 0
                            THEN Append(acc.stores,
                                        [idx |-> n - 1, val |-> data])
                            ELSE acc.stores],
                (n + 1) % 256, bufferSize, address + 1, cyc + 1,
                img)
    ELSE acc

\* readFlashJTAG without the test of customBlock
readFlashJTAGAnyBlock(e, flashSize, bufferSize, address, customBlock, img) ==
    LET e1 == switchMode(e, "JTAG")
        banked == flashSize > BANKED_ABOVE
        bank == jtagBank(address)
        folded == IF banked THEN jtagFold(address, bank) ELSE address
        pre == IF banked THEN jtagPreamble(bank, e.idle) ELSE <<>>
        e2 == emit(e1, <<Call("readFlashJTAG", 0)>> \o pre
                       \o sendInstruction(0, e.idle))
        acc == jtagReadLoop([out |-> e2.out, stores |-> <<>>], 0, bufferSize,
                            folded, 0, img)
        e3 == emit([e2 EXCEPT !.out = acc.out], sendInstruction(12, e.idle))
    IN [e |-> e3, stores |-> acc.stores, ret |-> 1]

\* JTAG::readFlashJTAG
readFlashJTAG(e, flashSize, bufferSize, address, customBlock, img) ==
    IF customBlock THEN [e |-> e, stores |-> <<>>, ret |-> 0]
    ELSE
    LET e1 == switchMode(e, "JTAG")
        banked == flashSize > BANKED_ABOVE
        bank == jtagBank(address)
        folded == IF banked THEN jtagFold(address, bank) ELSE address
        pre == IF banked THEN jtagPreamble(bank, e.idle) ELSE <<>>
        e2 == emit(e1, <<Call("readFlashJTAG", 0)>> \o pre
                       \o sendInstruction(0, e.idle))
        acc == jtagReadLoop([out |-> e2.out, stores |-> <<>>], 0, bufferSize,
                            folded, 0, img)
        e3 == emit([e2 EXCEPT !.out = acc.out], sendInstruction(12, e.idle))
    IN [e |-> e3, stores |-> acc.stores, ret |-> 1]

\* JTAG::getID; smp are the 16 levels of TDO during the data shift
getID(e, smp) ==
    LET e1 == switchMode(e, "JTAG")
    IN [e |-> emit(e1, <<Call("getID", 0)>>
                       \o sendInstruction(JTAG_IDCODE, e.idle)
                       \o receiveData(16, smp, e.idle)),
        ret |-> receiveDataValue(16, smp, 1)]

\* checkJTAG that rejects only the all-zero ID
checkJTAGNonZero(e, smp) ==
    LET r == getID(e, smp)
    IN [e |-> r.e, ret |-> IF r.ret # 0 THEN 1 ELSE 0]

\* JTAG::checkJTAG
checkJTAG(e, smp) ==
    LET r == getID(e, smp)
    IN [e |-> r.e, ret |-> IF r.ret # 0 /\ r.ret # 65535 THEN 1 ELSE 0]

\* checkICP that compares the byte of the second frame
checkICPSecondFrame(e, smp1, smp2) ==
    LET e1 == switchMode(e, "ICP")
    IN [e |-> emit(e1, <<Call("checkICP", 0)>>
                       \o sendICPData(ICP_SET_IB_OFFSET_L)
                       \o sendICPData(105)
                       \o sendICPData(ICP_SET_IB_OFFSET_H)
                       \o sendICPData(255)
                       \o sendICPData(ICP_GET_IB_OFFSET)
                       \o receiveICPData(smp1)
                       \o receiveICPData(smp2)),
        ret |-> IF receiveICPValue(smp2, 1, 0) = 105 THEN 1 ELSE 0]

\* JTAG::checkICP; smp1, smp2 are the levels of TDO in the two frames
checkICP(e, smp1, smp2) ==
    LET e1 == switchMode(e, "ICP")
    IN [e |-> emit(e1, <<Call("checkICP", 0)>>
                       \o sendICPData(ICP_SET_IB_OFFSET_L)
                       \o sendICPData(105)
                       \o sendICPData(ICP_SET_IB_OFFSET_H)
                       \o sendICPData(255)
                       \o sendICPData(ICP_GET_IB_OFFSET)
                       \o receiveICPData(smp1)
                       \o receiveICPData(smp2)),
        ret |-> IF receiveICPValue(smp1, 1, 0) = 105 THEN 1 ELSE 0]

\* ------------------------------------------------- the target's TAP
\* The TAP controller of IEEE 1149.1, which nextState() steps: its sixteen
\* states and the state a rising edge of TCK takes it to for a level of TMS.
TapStates ==
    {"TLR", "RTI", "SelDR", "CapDR", "ShDR", "Ex1DR", "PauDR", "Ex2DR", "UpdDR",
     "SelIR", "CapIR", "ShIR", "Ex1IR", "PauIR", "Ex2IR", "UpdIR"}

TapNext(s, tms) ==
    CASE s = "TLR"   -> IF tms = 1 THEN "TLR" ELSE "RTI"
      [] s = "RTI"   -> IF tms = 1 THEN "SelDR" ELSE "RTI"
      [] s = "SelDR" -> IF tms = 1 THEN "SelIR" ELSE "CapDR"
      [] s = "CapDR" -> IF tms = 1 THEN "Ex1DR" ELSE "ShDR"
      [] s = "ShDR"  -> IF tms = 1 THEN "Ex1DR" ELSE "ShDR"
      [] s = "Ex1DR" -> IF tms = 1 THEN "UpdDR" ELSE "PauDR"
      [] s = "PauDR" -> IF tms = 1 THEN "Ex2DR" ELSE "PauDR"
      [] s = "Ex2DR" -> IF tms = 1 THEN "UpdDR" ELSE "ShDR"
      [] s = "UpdDR" -> IF tms = 1 THEN "SelDR" ELSE "RTI"
      [] s = "SelIR" -> IF tms = 1 THEN "TLR" ELSE "CapIR"
      [] s = "CapIR" -> IF tms = 1 THEN "Ex1IR" ELSE "ShIR"
      [] s = "ShIR"  -> IF tms = 1 THEN "Ex1IR" ELSE "ShIR"
      [] s = "Ex1IR" -> IF tms = 1 THEN "UpdIR" ELSE "PauIR"
      [] s = "PauIR" -> IF tms = 1 THEN "Ex2IR" ELSE "PauIR"
      [] s = "Ex2IR" -> IF tms = 1 THEN "UpdIR" ELSE "ShIR"
      [] s = "UpdIR" -> IF tms = 1 THEN "SelDR" ELSE "RTI"

\* the functions whose entry is recorded in scans
ScanFns == {"sendInstruction", "sendData", "receiveData", "readCycle"}

\* the value a sendInstruction call shifts: at is the index of the call's
\* entry in out, four nextState (5 events each) precede the IR_BITS writes
\* of TDI, the first of them bit 0
InstructionAt(out, at) ==
    LET bit(j) == out[at + 20 + 6 * (j - 1) + 1]
    IN bit(1).v + bit(2).v * 2 + bit(3).v * 4 + bit(4).v * 8

\* the target after event i of out.  t is [tap, ir, scans]: tap the states
\* the controller can be in, ir the value of the last sendInstruction (-1
\* once the controller has been reset), scans what tap and ir were on entry
\* of each function called.  Each nextState is one step of the controller;
\* the mode-entry sequence of startMode leaves its state unknown.
TargetStep(t, out, i) ==
    LET ev == out[i]
    IN IF ev.k # "call" \/ ev.pin = "pulseClock" THEN t
       ELSE IF ev.pin = "nextState"
       THEN LET tap == {TapNext(s, out[i + 1].v) : s \in t.tap}
            IN [t EXCEPT !.tap = tap,
                         !.ir = IF tap = {"TLR"} THEN -1 ELSE @]
       ELSE LET seen == [fn |-> ev.pin, v |-> ev.v, tap |-> t.tap,
                         ir |-> t.ir]
            IN [tap |-> IF ev.pin = "startMode" THEN TapStates ELSE t.tap,
                ir |-> IF ev.pin = "sendInstruction"
                       THEN InstructionAt(out, i) ELSE t.ir,
                scans |-> Append(t.scans, seen)]

\* the target after the events out[lo..hi]
RECURSIVE TargetRun(_, _, _, _)
TargetRun(t, out, lo, hi) ==
    IF lo > hi THEN t
    ELSE IF lo = hi THEN TargetStep(t, out, lo)
    ELSE LET mid == (lo + hi) \div 2
             left == TargetRun(t, out, lo, mid)
         IN IF left.tap = {} THEN left
            ELSE TargetRun(left, out, mid + 1, hi)

\* nothing is known of the controller
TargetUnknown == [tap |-> TapStates, ir |-> -1]

\* the target when a call returns with the engine in mode: outside JTAG
\* mode the engine does not address the controller and nothing is assumed
\* of it
TargetIn(mode, t) ==
    IF mode = "JTAG" THEN [tap |-> t.tap, ir |-> t.ir] ELSE TargetUnknown

\* no read loop is being taken pass by pass
NoLoop == [n |-> -1, address |-> -1, cyc |-> -1]

\* ------------------------------------------------------------ the state
VARIABLES
    chip,     \* the build's ChipProfile: [type, flash] (config.h)
    jtag,     \* rpc.cpp's jtag pointer is not null
    pc,       \* "idle": rpc_loop waits for a command; "connect": connect()
              \* waits for Vref; "done": the call has returned
    vref,     \* the level of the Vref pin (target power)
    m_mode,   \* JTAG::m_mode
    dir,      \* direction of each pin: 1 output, 0 input (DDRD)
    lvl,      \* the level last written to TDI, TMS, TCK (PORTD)
    op,       \* the operation in progress or last returned
    arg,      \* its arguments
    ret,      \* what it returned (bool as 1/0; -1 while none)
    buffer,   \* the caller's buffer after a flash read
    stores,   \* the stores buffer[idx] = val the last flash read made
    modes,    \* m_mode on entry of op, then every value assigned to it
    trace,    \* the pin events of op, in order
    polls,    \* reads of Vref that returned low in this connect()
    reply,    \* what the RPC handler returns to the host (-1: nothing)
    loop,     \* readFlashJTAG's read loop while it is taken pass by pass:
              \* [n, address, cyc], the counter, the address and the number
              \* of passes made
    target,   \* the target's TAP controller as the engine has driven it:
              \* [tap, ir], the states it can be in and the instruction
              \* last loaded
    scans     \* what target was on entry of each function op has called

vars == <<chip, jtag, pc, vref, m_mode, dir, lvl, op, arg, ret, buffer,
          stores, modes, trace, polls, reply, loop, target, scans>>

\* the builds checked: config.h as shipped, a 64 KiB part, and a type-4
\* part with 1 MiB of flash
Profiles ==
    {[type |-> 2, flash |-> 32768],
     [type |-> 1, flash |-> 65536],
     [type |-> 4, flash |-> 1048576]}

\* addresses a flash read is asked for
AddrSamples ==
    {0, 4660, 32767, 32768, 65535, 65536, 74565, 98304, 1015809, 8388608}
\* the addresses that are also read with buffers longer than one byte
LongAddrs == {4660, 74565}
ReadRequest(n, addr) ==
    /\ n \in 0..MaxLen \cup {READ16_LEN}
    /\ addr \in AddrSamples
    /\ n <= 1 \/ addr \in LongAddrs

\* 16-bit patterns the target presents to getID, as the 16 levels sampled
IdSamples ==
    {[n \in 1..16 |-> Bit(v, n - 1)] : v \in {0, 65535, 4660}}
    \cup {[n \in 1..16 |-> Bit(4660, 16 - n)]}

\* bytes the target presents in the frames of checkICP
IcpSamples == {[i \in 1..8 |-> Bit(v, i - 1)] : v \in {105, 0, 150}}

NoArg == [n |-> 0, addr |-> 0, custom |-> FALSE, img |-> 0]

\* the index in lo..hi of the last event of out that drives pin, 0 if none
Drives(ev, pin) ==
    /\ ev.pin = pin
    /\ ev.k = "W" \/ (ev.k \in {"toggleLH", "toggleHL"} /\ ev.v > 0)

RECURSIVE LastDrive(_, _, _, _)
LastDrive(out, lo, hi, pin) ==
    IF lo > hi THEN 0
    ELSE IF lo = hi THEN (IF Drives(out[lo], pin) THEN lo ELSE 0)
    ELSE LET mid == (lo + hi) \div 2
             r == LastDrive(out, mid + 1, hi, pin)
         IN IF r # 0 THEN r ELSE LastDrive(out, lo, mid, pin)

LevelAfter(ev) ==
    IF ev.k = "W" THEN ev.v ELSE IF ev.k = "toggleLH" THEN 1 ELSE 0

\* PORTD after the events out
LevelsAfter(old, out) ==
    [p \in OutPins |->
        LET i == LastDrive(out, 1, Len(out), p)
        IN IF i = 0 THEN old[p] ELSE LevelAfter(out[i])]

\* DDRD after the events out
DirsAfter(old, out) ==
    [p \in Pins |->
        IF \E i \in 1..Len(out) : out[i].k = "D" /\ out[i].pin = p
        THEN (CHOOSE v \in 0..1 :
                \E i \in 1..Len(out) :
                    /\ out[i].k = "D" /\ out[i].pin = p /\ out[i].v = v
                    /\ \A j \in (i + 1)..Len(out) :
                          ~(out[j].k = "D" /\ out[j].pin = p))
        ELSE old[p]]

\* the caller's buffer of n bytes, each 0xFF before the call, after stores
RECURSIVE BufferAfter(_, _, _)
BufferAfter(buf, st, i) ==
    IF i > Len(st) THEN buf
    ELSE BufferAfter(IF st[i].idx + 1 \in DOMAIN buf
                     THEN [buf EXCEPT ![st[i].idx + 1] = st[i].val]
                     ELSE buf,
                     st, i + 1)

Entry(img) ==
    [mode |-> m_mode, modes |-> <<m_mode>>, out |-> <<>>,
     idle |-> ImageIdle(img)]

\* what the RPC handler of the call returns to the host: rpc_disconnect and
\* rpc_pingICP are void; rpc_checkICP, rpc_checkJTAG and rpc_getID return
\* the engine's result; rpc_readByteICP and rpc_readByteJTAG (n = 1) return
\* the byte when the read succeeded and 0xFF otherwise; rpc_read16ICP and
\* rpc_read16JTAG return the read's result
rpcReply(name, a, r, buf) ==
    IF name \in {"disconnect", "ping_icp"} THEN -1
    ELSE IF name \in {"read_flash_icp", "read_flash_jtag"} /\ a.n = 1
    THEN (IF r = 1 THEN buf[1] ELSE 255)
    ELSE r

\* an engine call returns: the engine's state and the call's results
Return(name, a, e, r, buf, st) ==
    /\ op' = name
    /\ reply' = rpcReply(name, a, r, buf)
    /\ arg' = a
    /\ ret' = r
    /\ m_mode' = e.mode
    /\ modes' = e.modes
    /\ trace' = e.out
    /\ lvl' = LevelsAfter(lvl, e.out)
    /\ dir' = DirsAfter(dir, e.out)
    /\ buffer' = buf
    /\ stores' = st
    /\ pc' = "done"
    /\ LET t == TargetRun([tap |-> target.tap, ir |-> target.ir,
                            scans |-> <<>>], e.out, 1, Len(e.out))
       IN /\ target' = TargetIn(e.mode, t)
          /\ scans' = t.scans
    /\ UNCHANGED <<chip, jtag, vref, polls, loop>>

Init ==
    /\ chip \in Profiles
    /\ jtag = FALSE
    /\ pc = "idle"
    /\ vref \in 0..1
    /\ m_mode = "DISCONNECTED"
    /\ dir = [p \in Pins |-> 0]
    /\ lvl = [p \in OutPins |-> 0]
    /\ op = "none"
    /\ arg = NoArg
    /\ ret = -1
    /\ buffer = <<>>
    /\ stores = <<>>
    /\ modes = <<"DISCONNECTED">>
    /\ trace = <<>>
    /\ polls = 0
    /\ reply = -1
    /\ loop = NoLoop
    /\ target = TargetUnknown
    /\ scans = <<>>

\* the operator switches the target's power on
PowerOn ==
    /\ vref = 0
    /\ vref' = 1
    /\ UNCHANGED <<chip, jtag, pc, m_mode, dir, lvl, op, arg, ret, buffer,
                   stores, modes, trace, polls, reply, loop, target, scans>>

\* a constructor that makes TDI, TMS and TCK outputs
constructOutputs == <<D("VREF", 0), D("TDO", 0), D("TDI", 1), D("TMS", 1),
                      D("TCK", 1)>>

\* JTAG::JTAG
construct == <<D("VREF", 0), D("TDO", 0), D("TDI", 0), D("TMS", 0),
               D("TCK", 0)>>

\* rpc_connect up to the wait for Vref in JTAG::connect
RpcConnect ==
    /\ pc = "idle"
    /\ pc' = "connect"
    /\ jtag' = TRUE
    /\ op' = "connect"
    /\ arg' = NoArg
    /\ ret' = -1
    /\ reply' = -1
    /\ polls' = 0
    /\ modes' = <<m_mode>>
    /\ trace' = IF jtag THEN <<>> ELSE construct
    /\ dir' = DirsAfter(dir, trace')
    /\ UNCHANGED <<chip, vref, m_mode, lvl, buffer, stores, loop, target,
                   scans>>

\* a wait for Vref that gives up after MaxPolls reads
ConnectPollTimeout ==
    /\ pc = "connect"
    /\ vref = 0
    /\ polls' = IF polls < MaxPolls THEN polls + 1 ELSE polls
    /\ trace' = IF polls < MaxPolls THEN Append(trace, R("VREF", 0))
                ELSE trace
    /\ pc' = IF polls < MaxPolls THEN "connect" ELSE "done"
    /\ ret' = IF polls < MaxPolls THEN ret ELSE 0
    /\ reply' = ret'
    /\ UNCHANGED <<chip, jtag, vref, m_mode, dir, lvl, op, arg, buffer,
                   stores, modes, loop, target, scans>>

\* one pass of  while (!getBit(PIN_VREF)) _delay_us(100);
ConnectPoll ==
    /\ pc = "connect"
    /\ vref = 0
    /\ polls' = IF polls < MaxPolls THEN polls + 1 ELSE polls
    /\ trace' = IF polls < MaxPolls THEN Append(trace, R("VREF", 0))
                ELSE trace
    /\ UNCHANGED <<chip, jtag, pc, vref, m_mode, dir, lvl, op, arg, ret,
                   buffer, stores, modes, reply, loop, target, scans>>

\* the read of Vref that returns high, the rest of JTAG::connect, and
\* rpc_connect's  return true
ConnectAttach ==
    /\ pc = "connect"
    /\ vref = 1
    /\ LET e == connectAttach([mode |-> m_mode, modes |-> modes,
                               out |-> trace, idle |-> 0])
       IN /\ m_mode' = e.mode
          /\ modes' = e.modes
          /\ trace' = e.out
          /\ lvl' = LevelsAfter(lvl, e.out)
          /\ dir' = DirsAfter(dir, e.out)
          /\ LET t == TargetRun([tap |-> target.tap, ir |-> target.ir,
                                  scans |-> <<>>], e.out, 1, Len(e.out))
             IN /\ target' = TargetIn(e.mode, t)
                /\ scans' = t.scans
    /\ pc' = "done"
    /\ ret' = 1
    /\ reply' = 1
    /\ UNCHANGED <<chip, jtag, vref, op, arg, buffer, stores, polls, loop>>

\* the RPC handlers that use the engine, rpc_connect apart
EngineOps ==
    {"disconnect", "check_icp", "check_jtag", "get_id", "ping_icp",
     "read_flash_icp", "read_flash_jtag", "detect_read_method"}

\* handlers that answer 0 where rpc_readByteICP and rpc_readByteJTAG answer
\* 0xFF
notAttachedReplyZero(name, n) ==
    IF name \in {"disconnect", "ping_icp"} THEN -1 ELSE 0

\* what a handler returns when the jtag pointer is null: rpc_disconnect and
\* rpc_pingICP return nothing; rpc_checkICP, rpc_checkJTAG, rpc_read16ICP
\* and rpc_read16JTAG return false; rpc_getID and rpc_detectReadMethod
\* return 0; rpc_readByteICP and rpc_readByteJTAG return 0xFF
notAttachedReply(name, n) ==
    IF name \in {"disconnect", "ping_icp"} THEN -1
    ELSE IF name \in {"read_flash_icp", "read_flash_jtag"} /\ n = 1 THEN 255
    ELSE 0

\* a handler other than rpc_connect called while the jtag pointer is null:
\* the engine does not exist and is not called
NotAttached ==
    /\ pc = "idle" /\ ~jtag
    /\ \E name \in EngineOps, n \in {1, READ16_LEN}, custom \in BOOLEAN :
          /\ name \in {"read_flash_icp", "read_flash_jtag"}
                \/ (n = 1 /\ ~custom)
          /\ op' = name
          /\ arg' = IF name \in {"read_flash_icp", "read_flash_jtag"}
                     THEN [NoArg EXCEPT !.n = n, !.custom = custom]
                     ELSE NoArg
          /\ reply' = notAttachedReply(name, n)
    /\ pc' = "done"
    /\ ret' = -1
    /\ trace' = <<>>
    /\ modes' = <<m_mode>>
    /\ buffer' = <<>>
    /\ stores' = <<>>
    /\ UNCHANGED <<chip, jtag, vref, m_mode, dir, lvl, polls, loop, target,
                   scans>>

\* rpc_loop: the result has gone to the host and the next command is
\* awaited; what was recorded of the call is dropped
RpcLoop ==
    /\ pc = "done"
    /\ pc' = "idle"
    /\ op' = "none"
    /\ arg' = NoArg
    /\ ret' = -1
    /\ reply' = -1
    /\ buffer' = <<>>
    /\ stores' = <<>>
    /\ modes' = <<m_mode>>
    /\ trace' = <<>>
    /\ polls' = 0
    /\ loop' = NoLoop
    /\ scans' = <<>>
    /\ UNCHANGED <<chip, jtag, vref, m_mode, dir, lvl, target>>

\* rpc_disconnect
Disconnect ==
    /\ pc = "idle" /\ jtag
    /\ \E img \in Images :
          Return("disconnect", [NoArg EXCEPT !.img = img],
                 disconnect(Entry(img)), -1, buffer, <<>>)

\* rpc_pingICP
PingICP ==
    /\ pc = "idle" /\ jtag
    /\ Return("ping_icp", NoArg, pingICP(Entry(1)), -1, buffer, <<>>)

\* rpc_checkICP
CheckICP ==
    /\ pc = "idle" /\ jtag
    /\ \E smp1 \in IcpSamples, smp2 \in IcpSamples :
          LET r == checkICP(Entry(1), smp1, smp2)
          IN Return("check_icp", NoArg, r.e, r.ret, buffer, <<>>)

\* rpc_checkJTAG
CheckJTAG ==
    /\ pc = "idle" /\ jtag
    /\ \E smp \in IdSamples :
          LET r == checkJTAG(Entry(1), smp)
          IN Return("check_jtag", NoArg, r.e, r.ret, buffer, <<>>)

\* rpc_getID
GetID ==
    /\ pc = "idle" /\ jtag
    /\ \E smp \in IdSamples :
          LET r == getID(Entry(1), smp)
          IN Return("get_id", NoArg, r.e, r.ret, buffer, <<>>)

\* JTAG::readFlashICP on a caller's buffer of n bytes, as rpc_readByteICP
\* calls it with n = 1 and rpc_read16ICP with n = 16
ReadFlashICP ==
    /\ pc = "idle" /\ jtag
    /\ \E n \in 0..MaxLen \cup {READ16_LEN}, addr \in AddrSamples,
          custom \in BOOLEAN, img \in Images :
          /\ ReadRequest(n, addr)
          /\ LET r == readFlashICP(Entry(img), chip.type, n, addr, custom,
                                   img)
             IN Return("read_flash_icp",
                       [n |-> n, addr |-> addr, custom |-> custom,
                        img |-> img],
                       r.e, r.ret,
                       BufferAfter([i \in 1..n |-> 255], r.stores, 1),
                       r.stores)

\* JTAG::readFlashJTAG on a caller's buffer of n bytes, as rpc_readByteJTAG
\* calls it with n = 1 and rpc_read16JTAG with n = 16
ReadFlashJTAG ==
    /\ pc = "idle" /\ jtag
    /\ \E n \in 0..MaxLen \cup {READ16_LEN}, addr \in AddrSamples,
          custom \in BOOLEAN, img \in Images :
          /\ ReadRequest(n, addr)
          /\ LET r == readFlashJTAG(Entry(img), chip.flash, n, addr, custom,
                                    img)
             IN Return("read_flash_jtag",
                       [n |-> n, addr |-> addr, custom |-> custom,
                        img |-> img],
                       r.e, r.ret,
                       BufferAfter([i \in 1..n |-> 255], r.stores, 1),
                       r.stores)

Next ==
    \/ PowerOn
    \/ RpcConnect
    \/ ConnectPoll
    \/ ConnectAttach
    \/ Disconnect
    \/ PingICP
    \/ CheckICP
    \/ CheckJTAG
    \/ GetID
    \/ ReadFlashICP
    \/ ReadFlashJTAG
    \/ NotAttached
    \/ RpcLoop

Spec == Init /\ [][Next]_vars

\* The mode register is set to ERROR by code outside the engine's sources
\* ("the reference sets ERROR only via external code paths not present
\* in-tree"): the latch is taken between two commands.
LatchError ==
    /\ pc = "idle" /\ jtag
    /\ m_mode # "ERROR"
    /\ m_mode' = "ERROR"
    /\ modes' = <<"ERROR">>
    /\ UNCHANGED <<chip, jtag, pc, vref, dir, lvl, op, arg, ret, buffer,
                   stores, trace, polls, reply, loop, target, scans>>

SpecErr == Init /\ [][Next \/ LatchError]_vars

\* The framing functions called on their own, on an engine in ICP mode, with
\* every byte and every pattern of TDO levels.
\* JTAG::sendICPData(value)
SendIcpByte ==
    /\ pc = "idle" /\ jtag /\ m_mode = "ICP"
    /\ \E value \in 0..255 :
          Return("send_icp", [NoArg EXCEPT !.addr = value],
                 emit(Entry(1), sendICPData(value)), -1, buffer, <<>>)

\* JTAG::receiveICPData()
ReceiveIcpByte ==
    /\ pc = "idle" /\ jtag /\ m_mode = "ICP"
    /\ \E smp \in [1..8 -> 0..1] :
          Return("recv_icp", NoArg, emit(Entry(1), receiveICPData(smp)),
                 receiveICPValue(smp, 1, 0), buffer, <<>>)

SpecFrames == Init /\ [][Next \/ SendIcpByte \/ ReceiveIcpByte]_vars

\* JTAG::readFlashJTAG taken one pass of its read loop at a time, for the
\* buffer lengths at the ends of the range of its uint8_t parameter.  While
\* the loop runs, trace, modes, scans and stores hold what the latest step
\* did;
\* buffer and loop hold what the call has done so far.  The passes followed
\* stop at MaxPasses.
LoopLens == {0, 2, 255}
\* the address these reads are asked for
LoopAddrs == {74565}

\* readFlashJTAG (customBlock = false) up to the first test of the loop:
\* switchMode, the preamble, sendInstruction(0) and  uint8_t n = 0
ReadLoopEnter ==
    /\ pc = "idle" /\ jtag
    /\ \E n \in LoopLens, addr \in LoopAddrs :
          LET e1 == switchMode(Entry(1), "JTAG")
              banked == chip.flash > BANKED_ABOVE
              bank == jtagBank(addr)
              folded == IF banked THEN jtagFold(addr, bank) ELSE addr
              pre == IF banked THEN jtagPreamble(bank, e1.idle) ELSE <<>>
              e2 == emit(e1, <<Call("readFlashJTAG", 0)>> \o pre
                             \o sendInstruction(0, e1.idle))
              t == TargetRun([tap |-> target.tap, ir |-> target.ir,
                              scans |-> <<>>], e2.out, 1, Len(e2.out))
          IN /\ op' = "read_flash_jtag"
             /\ arg' = [n |-> n, addr |-> addr, custom |-> FALSE, img |-> 1]
             /\ loop' = [n |-> 0, address |-> folded, cyc |-> 0]
             /\ m_mode' = e2.mode
             /\ modes' = e2.modes
             /\ trace' = e2.out
             /\ lvl' = LevelsAfter(lvl, e2.out)
             /\ dir' = DirsAfter(dir, e2.out)
             /\ target' = TargetIn(e2.mode, t)
             /\ scans' = t.scans
             /\ buffer' = [i \in 1..n |-> 255]
    /\ pc' = "read"
    /\ ret' = -1
    /\ reply' = -1
    /\ stores' = <<>>
    /\ UNCHANGED <<chip, jtag, vref, polls>>

\* one pass of  for (uint8_t n = 0; n < bufferSize + 1; ++n, ++address):
\* the test, the body and the increments; bufferSize + 1 is an int
ReadLoopPass ==
    /\ pc = "read"
    /\ loop.n < arg.n + 1
    /\ loop.cyc < MaxPasses
    /\ LET smp == TargetCycle(arg.img, loop.cyc)
           data == jtagCycleData(smp, 1, 0)
           p == jtagReadCycle(loop.address, smp)
           st == IF loop.n > 0 THEN <<[idx |-> loop.n - 1, val |-> data]>>
                 ELSE <<>>
           t == TargetRun([tap |-> target.tap, ir |-> target.ir,
                           scans |-> <<>>], p, 1, Len(p))
       IN /\ trace' = p
          /\ stores' = st
          /\ buffer' = BufferAfter(buffer, st, 1)
          /\ lvl' = LevelsAfter(lvl, p)
          /\ target' = TargetIn(m_mode, t)
          /\ scans' = t.scans
    /\ loop' = [n |-> (loop.n + 1) % 256, address |-> loop.address + 1,
                cyc |-> loop.cyc + 1]
    /\ modes' = <<m_mode>>
    /\ UNCHANGED <<chip, jtag, pc, vref, m_mode, dir, op, arg, ret, polls,
                   reply>>

\* the test of the loop fails: sendInstruction(12) and  return true
ReadLoopExit ==
    /\ pc = "read"
    /\ ~(loop.n < arg.n + 1)
    /\ LET p == sendInstruction(12, ImageIdle(arg.img))
           t == TargetRun([tap |-> target.tap, ir |-> target.ir,
                           scans |-> <<>>], p, 1, Len(p))
       IN /\ trace' = p
          /\ lvl' = LevelsAfter(lvl, p)
          /\ target' = TargetIn(m_mode, t)
          /\ scans' = t.scans
    /\ pc' = "done"
    /\ ret' = 1
    /\ reply' = rpcReply(op, arg, 1, buffer)
    /\ stores' = <<>>
    /\ modes' = <<m_mode>>
    /\ UNCHANGED <<chip, jtag, vref, m_mode, dir, op, arg, buffer, polls,
                   loop>>

SpecLoop ==
    Init /\ [][Next \/ ReadLoopEnter \/ ReadLoopPass \/ ReadLoopExit]_vars

\* ------------------------------------------------------ reading the trace
Returned(name) == pc = "done" /\ jtag /\ op = name

\* the index in trace of the k-th entry of function fn (width v)
Marks(fn, v) == {i \in 1..Len(trace) : trace[i] = Call(fn, v)}
Mark(fn, v, k) ==
    LET M == Marks(fn, v)
    IN CHOOSE i \in M : Cardinality({j \in M : j <= i}) = k

\* the byte sendData<8> put on TDI, the first bit shifted being bit 7; at is
\* the index of the call's entry: three nextState (5 events each), then
\* eight times a write of TDI and a nextState
WireByte(at) ==
    LET bit(j) == trace[at + 15 + 6 * (j - 1) + 1]
    IN bit(1).v * 128 + bit(2).v * 64 + bit(3).v * 32 + bit(4).v * 16
       + bit(5).v * 8 + bit(6).v * 4 + bit(7).v * 2 + bit(8).v

\* the events of one read cycle that write TDI for the 16 address bits
AddrEvent(at, j) == trace[at + 15 + 6 * (j - 1) + 1]

\* the 16-bit word a read cycle shifts out, the first bit being bit 15
RECURSIVE ShiftedFrom(_, _)
ShiftedFrom(at, j) ==
    IF j > 16 THEN 0
    ELSE AddrEvent(at, j).v * Pow2(16 - j) + ShiftedFrom(at, j + 1)

ShiftedAddr(k) == ShiftedFrom(Mark("readCycle", 0, k + 1), 1)

\* the events of a read cycle that read TDO in its eight data shifts
DataEvent(at, i) ==
    IF i < 8 THEN trace[at + 15 + 96 + 36 + 6 * (i - 1) + 5]
    ELSE trace[at + 15 + 96 + 36 + 42 + 4]

\* the byte sampled in read cycle k, the first bit sampled being bit 7
SampledByte(k) ==
    LET at == Mark("readCycle", 0, k + 1)
        bit(i) == DataEvent(at, i)
    IN bit(1).v * 128 + bit(2).v * 64 + bit(3).v * 32 + bit(4).v * 16
       + bit(5).v * 8 + bit(6).v * 4 + bit(7).v * 2 + bit(8).v

DataEventsAreReads(k) ==
    \A i \in 1..8 :
        LET ev == DataEvent(Mark("readCycle", 0, k + 1), i)
        IN ev.k = "R" /\ ev.pin = "TDO"

AddrEventsAreWrites(k) ==
    \A j \in 1..16 :
        LET ev == AddrEvent(Mark("readCycle", 0, k + 1), j)
        IN ev.k = "W" /\ ev.pin = "TDI"

JtagRead == Returned("read_flash_jtag") /\ ~arg.custom

\* the byte a sendICPData call put on TDI, the first bit being bit 7; at is
\* the index of the call's entry, each bit a write of TDI and a pulseClock
IcpSentByte(at) ==
    LET bit(i) == trace[at + 4 * (i - 1) + 1]
    IN bit(1).v * 128 + bit(2).v * 64 + bit(3).v * 32 + bit(4).v * 16
       + bit(5).v * 8 + bit(6).v * 4 + bit(7).v * 2 + bit(8).v

\* the bytes the call sent in ICP frames, in order
IcpSent ==
    [k \in 1..Cardinality(Marks("sendICPData", 0)) |->
        IcpSentByte(Mark("sendICPData", 0, k))]

\* the byte a receiveICPData call sampled, the first bit being bit 0; each
\* bit a pulseClock and a read of TDO
IcpReceivedByte(at) ==
    LET bit(i) == trace[at + 4 * i]
    IN bit(1).v + bit(2).v * 2 + bit(3).v * 4 + bit(4).v * 8
       + bit(5).v * 16 + bit(6).v * 32 + bit(7).v * 64 + bit(8).v * 128

\* the level of TDO read in the n-th of the 16 data shifts of the call's
\* receiveData<16>: three nextState (5 events each) precede the shifts
IdSample(n) == trace[Mark("receiveData", 16, 1) + 15 + 5 * (n - 1) + 4]

\* the 16 levels read as a value whose first bit is bit 15, resp. bit 0
RECURSIVE IdMsbFirstFrom(_)
IdMsbFirstFrom(n) ==
    IF n > 16 THEN 0 ELSE IdSample(n).v * Pow2(16 - n) + IdMsbFirstFrom(n + 1)

RECURSIVE IdLsbFirstFrom(_)
IdLsbFirstFrom(n) ==
    IF n > 16 THEN 0 ELSE IdSample(n).v * Pow2(n - 1) + IdLsbFirstFrom(n + 1)

IdMsbFirst == IdMsbFirstFrom(1)
IdLsbFirst == IdLsbFirstFrom(1)

\* the receive frames of the call come after everything it sent
FramesFollowSent ==
    \A i \in Marks("sendICPData", 0), j \in Marks("receiveICPData", 0) :
        i < j
Banked == chip.flash > 65536

\* ------------------------------------------------------------------ claims

\* C1: whenever the engine's mode is READY (after connect, or after any
\* operation that followed it, has returned), TCK is an output driven high
\* and TMS is an output driven low.
C1_ReadyPins ==
    m_mode = "READY" =>
        /\ dir["TCK"] = 1 /\ lvl["TCK"] = 1
        /\ dir["TMS"] = 1 /\ lvl["TMS"] = 0

C1_Witness ==
    /\ Returned("read_flash_icp")
    /\ m_mode = "READY"
    /\ modes = <<"JTAG", "READY", "ICP", "READY">>
    /\ lvl["TCK"] = 1

\* C2: once the mode is ERROR, a step changes it only if it belongs to
\* connect(): every other operation leaves the mode equal to ERROR.
C2_ErrorIsLatched ==
    [][m_mode = "ERROR" => (m_mode' = "ERROR" \/ op' = "connect")]_vars

\* C3: every change of the mode follows an edge of DISCONNECTED -> READY,
\* READY <-> ICP, READY <-> JTAG, any -> ERROR.
ModeEdges ==
    {<<"DISCONNECTED", "READY">>, <<"READY", "ICP">>, <<"ICP", "READY">>,
     <<"READY", "JTAG">>, <<"JTAG", "READY">>}
    \cup {<<m, "ERROR">> : m \in Modes}

ModeChanges ==
    {<<modes[i], modes[i + 1]>> : i \in {j \in 1..(Len(modes) - 1) :
                                           modes[j] # modes[j + 1]}}

C3_ModeGraph == ModeChanges \subseteq ModeEdges

\* C3 as amended: every change of the mode made outside connect() follows
\* an edge of the graph, and connect() sets the mode to ICP from whatever
\* mode it is called in and then, through reset(), to READY.
C3_ModeGraphButConnect ==
    /\ op # "connect" => ModeChanges \subseteq ModeEdges
    /\ Returned("connect") =>
          /\ Len(modes) = 3
          /\ modes[1] \in {"DISCONNECTED", "READY", "ICP", "JTAG"}
          /\ modes[2] = "ICP"
          /\ modes[3] = "READY"

C3_Witness == Returned("connect") /\ modes = <<"JTAG", "ICP", "READY">>

\* C4: from the read of Vref that returns high, connect() emits: TDI, TMS,
\* TCK made outputs, driven low, then high; one TCK low strobe; 165 TMS, 105
\* TDI and 90 TCK low-then-high pairs; 25600 TMS low-then-high pairs and
\* TMS low; the ICP magic byte through startMode(); 25600 TCK high-then-low
\* pairs; reset(); and the mode is READY.
C4_ConnectSequence ==
    Returned("connect") =>
        LET a == CHOOSE i \in 1..Len(trace) : trace[i] = R("VREF", 1)
            ev(k) == trace[a + k]
            T(kind, pin, n) == [k |-> kind, pin |-> pin, v |-> n]
        IN /\ Len(trace) = a + 51
           /\ \A i \in 1..(a - 1) : trace[i].k \in {"D", "R"}
           /\ {ev(1), ev(2), ev(3)} = {D(q, 1) : q \in OutPins}
           /\ {ev(4), ev(5), ev(6)} = {W(q, 0) : q \in OutPins}
           /\ {ev(7), ev(8), ev(9)} = {W(q, 1) : q \in OutPins}
           /\ ev(10) = W("TCK", 0) /\ ev(11) = W("TCK", 1)
           /\ ev(12) = T("toggleLH", "TMS", 165)
           /\ ev(13) = T("toggleLH", "TDI", 105)
           /\ ev(14) = T("toggleLH", "TCK", 90)
           /\ ev(15) = T("toggleLH", "TMS", 25600)
           /\ ev(16) = W("TMS", 0)
           /\ ev(17) = Call("startMode", 0) /\ ev(18) = W("TCK", 0)
           /\ \A i \in 1..8 :
                 /\ ev(18 + 3 * (i - 1) + 1) = W("TDI", Bit(MAGIC_ICP, 8 - i))
                 /\ ev(18 + 3 * (i - 1) + 2) = W("TCK", 1)
                 /\ ev(18 + 3 * (i - 1) + 3) = W("TCK", 0)
           /\ ev(43) = W("TCK", 1) /\ ev(44) = W("TCK", 0)
           /\ ev(45) = W("TCK", 1) /\ ev(46) = W("TCK", 0)
           /\ ev(47) = T("toggleHL", "TCK", 25600)
           /\ ev(48) = Call("reset", 0)
           /\ ev(49) = W("TCK", 1) /\ ev(50) = W("TMS", 1)
           /\ ev(51) = W("TMS", 0)
           /\ m_mode = "READY"

C4_Witness ==
    /\ Returned("connect")
    /\ polls = MaxPolls
    /\ \E i \in 1..Len(trace) : trace[i].k = "toggleHL" /\ trace[i].v = 25600

\* C5: no pin is an output before connect() has read Vref high: a pin that
\* is an output is TDI, TMS or TCK; a step makes a pin an output only as
\* part of connect() while Vref is high; and every event of a trace that
\* makes a pin an output comes after a read of Vref that returned high.
C5_InputsUntilVref ==
    /\ [](\A q \in Pins : dir[q] = 1 => q \in OutPins)
    /\ [](\A i \in 1..Len(trace) :
             (trace[i].k = "D" /\ trace[i].v = 1) =>
                 \E j \in 1..(i - 1) : trace[j] = R("VREF", 1))
    /\ [][(\E q \in Pins : dir[q] = 0 /\ dir'[q] = 1) =>
             (pc = "connect" /\ vref = 1 /\ op' = "connect")]_vars

C5_Witness ==
    /\ Returned("connect")
    /\ polls > 0
    /\ dir = [q \in Pins |-> IF q \in OutPins THEN 1 ELSE 0]
    /\ trace[1] = D("VREF", 0)

\* C6: connect() has no timeout: while Vref reads low the call stays in
\* its wait; the wait is left only by a read of Vref that returns high;
\* the call then runs to its end (every loop of the handshake terminates),
\* rpc_connect returns true and the mode is READY, whatever it was before.
C6_ConnectWaits ==
    /\ [][(pc = "connect" /\ vref = 0 /\ vref' = 0) => pc' = "connect"]_vars
    /\ [][(pc = "connect" /\ pc' # "connect") =>
             /\ vref = 1
             /\ trace'[Len(trace) + 1] = R("VREF", 1)
             /\ pc' = "done" /\ op' = "connect"
             /\ ret' = 1 /\ m_mode' = "READY"
             /\ \A i \in 1..Len(trace') :
                   trace'[i].k \in {"toggleLH", "toggleHL"} =>
                       trace'[i].v > 0]_vars

C6_Witness ==
    /\ Returned("connect")
    /\ ret = 1
    /\ modes[1] = "JTAG"
    /\ m_mode = "READY"

C8_Bit15 ==
    JtagRead =>
        /\ AddrEventsAreWrites(0)
        /\ Bit(ShiftedAddr(0), 15) = 1 <=> arg.addr >= 32768
        /\ ShiftedAddr(0) % 32768 = arg.addr % 32768

\* C8 as amended: the same for every address below 0x10000 on a build with
\* at most 64 KiB of flash and below 0x800000 on a build with more.
C8_Bit15InRange ==
    (JtagRead /\ arg.addr < (IF Banked THEN 8388608 ELSE 65536)) =>
        /\ AddrEventsAreWrites(0)
        /\ Bit(ShiftedAddr(0), 15) = 1 <=> arg.addr >= 32768
        /\ ShiftedAddr(0) % 32768 = arg.addr % 32768

C8_Witness ==
    /\ JtagRead
    /\ Banked
    /\ arg.addr = 1015809
    /\ ShiftedAddr(0) = 32769

\* the ten opcode bytes of the preamble as they appear on TDI
Preamble == [k \in 1..10 |-> WireByte(Mark("sendData", 8, k))]

\* C9: on a build with more than 64 KiB of flash, a JTAG read of 4 bytes at
\* 0x012345 injects MOV PBANKLO,#0x55; MOV PBANK,#0; four NOPs, then runs
\* the read loop 5 times and stores 4 bytes.
C9_Bank0 ==
    (JtagRead /\ Banked /\ arg.addr = 74565 /\ arg.n = 4) =>
        /\ Cardinality(Marks("sendData", 8)) = 10
        /\ Preamble = <<117, 183, 85, 117, 182, 0, 0, 0, 0, 0>>
        /\ Cardinality(Marks("readCycle", 0)) = 5
        /\ Len(stores) = 4

\* C9 as amended: the bank selected is 2 (0x012345 >> 15), the preamble is
\* MOV PBANKLO,#0x55; MOV PBANK,#2; four NOPs; the loop runs 5 times and
\* stores 4 bytes.
C9_Bank2 ==
    (JtagRead /\ Banked /\ arg.addr = 74565 /\ arg.n = 4) =>
        /\ Cardinality(Marks("sendData", 8)) = 10
        /\ Preamble = <<117, 183, 85, 117, 182, 2, 0, 0, 0, 0>>
        /\ Cardinality(Marks("readCycle", 0)) = 5
        /\ Len(stores) = 4

C9_Witness ==
    /\ JtagRead /\ Banked /\ arg.addr = 74565 /\ arg.n = 4
    /\ Len(buffer) = 4
    /\ Preamble[6] = 2

\* C10: on a build with more than 64 KiB of flash and for an address below
\* the flash size, the operand of MOV PBANK on the wire is addr >> 15, and
\* when it is > 0 the address shifted in the first read cycle is
\* (addr & 0x7FFF) | 0x8000.
C10_BankOperand ==
    (JtagRead /\ Banked /\ arg.addr < chip.flash) =>
        /\ Cardinality(Marks("sendData", 8)) = 10
        /\ Preamble[5] = 182
        /\ Preamble[6] = arg.addr \div 32768
        /\ Preamble[6] > 0 =>
              ShiftedAddr(0) = (arg.addr % 32768) + 32768

C10_Witness ==
    /\ JtagRead /\ Banked /\ arg.addr = 98304
    /\ Preamble[6] = 3
    /\ ShiftedAddr(0) = 32768

\* C11: a JTAG flash read with customBlock = true returns false and changes
\* nothing: the step that makes the call leaves the mode, the direction and
\* the level of every pin as they were, emits no pin event, assigns no mode
\* and stores nothing in the buffer; rpc_readByteJTAG (n = 1) then returns
\* 0xFF and rpc_read16JTAG (n = 16) returns false.
C11_CustomBlockRefused ==
    [][(pc = "idle" /\ jtag /\ op' = "read_flash_jtag" /\ arg'.custom) =>
          /\ ret' = 0
          /\ m_mode' = m_mode /\ modes' = <<m_mode>>
          /\ lvl' = lvl /\ dir' = dir
          /\ trace' = <<>>
          /\ stores' = <<>>
          /\ buffer' = [i \in 1..arg'.n |-> 255]
          /\ arg'.n = 1 => reply' = 255
          /\ arg'.n = READ16_LEN => reply' = 0]_vars

C11_Witness ==
    /\ Returned("read_flash_jtag") /\ arg.custom
    /\ arg.n = READ16_LEN
    /\ m_mode = "ICP"
    /\ reply = 0
    /\ Len(buffer) = READ16_LEN

IcpRead == Returned("read_flash_icp")

\* the bytes readFlashICP itself sends for a chip type other than 1, 4, 7
IcpReadBytes ==
    <<70, 254, 255, ICP_SET_IB_OFFSET_L, arg.addr % 256, ICP_SET_IB_OFFSET_H,
      (arg.addr \div 256) % 256,
      IF arg.custom THEN ICP_READ_CUSTOM_BLOCK ELSE ICP_READ_FLASH>>

\* C12: for a chip type other than 1, 4 and 7, an ICP flash read called in
\* READY sends ICP frames that begin with 0x46, 0xFE, 0xFF, SET_IB_OFFSET_L,
\* addr & 0xFF, SET_IB_OFFSET_H, (addr >> 8) & 0xFF, READ_FLASH (or
\* READ_CUSTOM_BLOCK), and then consumes exactly n receive frames.
C12_IcpReadBegins ==
    (IcpRead /\ chip.type \notin {1, 4, 7} /\ modes[1] = "READY") =>
        /\ Len(IcpSent) >= 8
        /\ SubSeq(IcpSent, 1, 8) = IcpReadBytes
        /\ Cardinality(Marks("receiveICPData", 0)) = arg.n
        /\ FramesFollowSent

\* C12 as amended: called in READY (or JTAG) the read first enters ICP
\* mode, which sends the frames PING, 0xFF; the frames sent are then
\* exactly the eight of the claim, and exactly n receive frames follow.
\* Called in ICP mode the frames sent are exactly the eight.
C12_IcpReadAfterPing ==
    (IcpRead /\ chip.type \notin {1, 4, 7}) =>
        /\ IcpSent = (IF modes[1] = "ICP" THEN <<>> ELSE <<ICP_PING, 255>>)
                     \o IcpReadBytes
        /\ Cardinality(Marks("receiveICPData", 0)) = arg.n
        /\ FramesFollowSent

C12_Witness ==
    /\ IcpRead /\ chip.type = 2 /\ modes[1] = "READY"
    /\ arg.addr = 4660 /\ arg.n = READ16_LEN /\ ~arg.custom
    /\ IcpSent = <<73, 255, 70, 254, 255, 64, 52, 65, 18, 68>>
    /\ Cardinality(Marks("receiveICPData", 0)) = 16

\* the bytes checkICP itself sends
CheckIcpBytes ==
    <<ICP_SET_IB_OFFSET_L, 105, ICP_SET_IB_OFFSET_H, 255, ICP_GET_IB_OFFSET>>

\* C13: checkICP called in READY sends as ICP frames exactly
\* SET_IB_OFFSET_L, 0x69, SET_IB_OFFSET_H, 0xFF, GET_IB_OFFSET, then consumes
\* exactly two receive frames, and returns true exactly when the byte of
\* the first frame is 0x69.
C13_CheckIcpExactly ==
    (Returned("check_icp") /\ modes[1] = "READY") =>
        /\ IcpSent = CheckIcpBytes
        /\ Cardinality(Marks("receiveICPData", 0)) = 2
        /\ FramesFollowSent
        /\ ret = 1 <=> IcpReceivedByte(Mark("receiveICPData", 0, 1)) = 105

\* C13 as amended: called in READY (or JTAG) checkICP first enters ICP
\* mode, which sends the frames PING, 0xFF; it then sends exactly the five
\* frames of the claim, consumes exactly two receive frames and returns
\* true exactly when the byte of the first frame is 0x69.  Called in ICP
\* mode it sends exactly the five frames.
C13_CheckIcpAfterPing ==
    Returned("check_icp") =>
        /\ IcpSent = (IF modes[1] = "ICP" THEN <<>> ELSE <<ICP_PING, 255>>)
                     \o CheckIcpBytes
        /\ Cardinality(Marks("receiveICPData", 0)) = 2
        /\ FramesFollowSent
        /\ ret = 1 <=> IcpReceivedByte(Mark("receiveICPData", 0, 1)) = 105
        /\ reply = ret

C13_Witness ==
    /\ Returned("check_icp") /\ modes[1] = "READY"
    /\ IcpSent = <<73, 255, 64, 105, 65, 255, 67>>
    /\ IcpReceivedByte(Mark("receiveICPData", 0, 1)) = 105
    /\ IcpReceivedByte(Mark("receiveICPData", 0, 2)) = 0
    /\ ret = 1

IdRead == Returned("get_id") \/ Returned("check_jtag")

IsPulse(at) ==
    /\ trace[at] = Call("pulseClock", 0)
    /\ trace[at + 1] = W("TCK", 1)
    /\ trace[at + 2] = W("TCK", 0)

\* the events from one call's entry at to the next call of the same kind
\* (or the end of the operation's sends) that raise TCK
PulsesIn(lo, hi) == {i \in lo..hi : trace[i] = W("TCK", 1)}

\* C15: every sendICPData(b) produces exactly 9 TCK pulses: eight during
\* which TDI holds bit 7, 6, .., 0 of b, then one filler pulse, and drives
\* TDI low after the ninth pulse; for every byte b in 0..255.
C15_SendIcpFrame ==
    /\ \A at \in Marks("sendICPData", 0) :
          /\ at + 36 <= Len(trace)
          /\ \A i \in 1..8 :
                /\ trace[at + 4 * (i - 1) + 1].k = "W"
                /\ trace[at + 4 * (i - 1) + 1].pin = "TDI"
                /\ IsPulse(at + 4 * (i - 1) + 2)
          /\ IsPulse(at + 33)
          /\ trace[at + 36] = W("TDI", 0)
          /\ Cardinality(PulsesIn(at, at + 36)) = 9
    /\ Returned("send_icp") =>
          /\ Marks("sendICPData", 0) = {1}
          /\ Len(trace) = 37
          /\ \A i \in 1..8 :
                trace[4 * (i - 1) + 2] = W("TDI", Bit(arg.addr, 8 - i))
          /\ lvl["TDI"] = 0 /\ lvl["TCK"] = 0

C15_Witness ==
    /\ Returned("send_icp")
    /\ arg.addr = 150
    /\ Cardinality(PulsesIn(1, Len(trace))) = 9

\* C16: receiveICPData produces exactly 9 TCK pulses and returns the byte
\* whose bit i is the level of TDO read after the (i+1)-th pulse; TDO is not
\* read after the ninth pulse.
C16_ReceiveIcpFrame ==
    /\ \A at \in Marks("receiveICPData", 0) :
          /\ at + 35 <= Len(trace)
          /\ \A i \in 1..8 :
                /\ IsPulse(at + 4 * (i - 1) + 1)
                /\ trace[at + 4 * i].k = "R" /\ trace[at + 4 * i].pin = "TDO"
          /\ IsPulse(at + 33)
          /\ Cardinality(PulsesIn(at, at + 35)) = 9
    /\ Returned("recv_icp") =>
          /\ Marks("receiveICPData", 0) = {1}
          /\ Len(trace) = 36
          /\ Cardinality({i \in 1..Len(trace) : trace[i].k = "R"}) = 8
          /\ \A i \in 0..7 : Bit(ret, i) = trace[4 * (i + 1) + 1].v
          /\ ret \in 0..255

C16_Witness ==
    /\ Returned("recv_icp")
    /\ ret = 105
    /\ trace[5].v = 1 /\ trace[9].v = 0

\* the mode an operation passes to switchMode()
SwitchTarget ==
    IF op \in {"disconnect", "check_icp", "read_flash_icp"} THEN "ICP"
    ELSE IF op \in {"get_id", "check_jtag"} \/ (op = "read_flash_jtag"
                                                /\ ~arg.custom)
    THEN "JTAG"
    ELSE "none"

\* the entry marker of the operation's own body, which follows its call of
\* switchMode()
OwnMark ==
    IF op = "check_icp" THEN Call("checkICP", 0)
    ELSE IF op = "read_flash_icp" THEN Call("readFlashICP", 0)
    ELSE IF op = "read_flash_jtag" THEN Call("readFlashJTAG", 0)
    ELSE Call("getID", 0)

\* C17: switchMode(m) called while the mode is m does nothing: the operation
\* that calls it emits no reset, no magic byte, no ICP ping, no TAP reset
\* and no JTAG initialisation, and assigns no mode, before its own body;
\* disconnect(), which is only that call, changes no pin and no state.
C17_SameModeNoOp ==
    /\ []((pc = "done" /\ SwitchTarget = modes[1]) =>
            /\ Marks("switchMode", 0) = {}
            /\ Marks("startMode", 0) = {}
            /\ Marks("sendData", 23) = {}
            /\ IF op = "disconnect"
               THEN trace = <<>> /\ modes = <<"ICP">> /\ m_mode = "ICP"
               ELSE /\ trace[1] = OwnMark
                    /\ op = "check_icp" => IcpSent = CheckIcpBytes
                    /\ op # "read_flash_icp" => modes = <<modes[1]>>)
    /\ [][(pc = "idle" /\ op' = "disconnect" /\ m_mode = "ICP") =>
             (lvl' = lvl /\ dir' = dir /\ m_mode' = m_mode)]_vars

C17_Witness ==
    /\ Returned("get_id")
    /\ modes = <<"JTAG">>
    /\ trace[1] = Call("getID", 0)

\* every entry of sendInstruction, sendData and receiveData in the trace
ScanMarks ==
    {i \in 1..Len(trace) :
        /\ trace[i].k = "call"
        /\ trace[i].pin \in {"sendInstruction", "sendData", "receiveData"}}

\* the value shifted out by the scan entered at at: lead events of TAP
\* steps, then N times a write of TDI and a nextState, bit 0 first
RECURSIVE ScanValueFrom(_, _, _, _)
ScanValueFrom(at, lead, N, n) ==
    IF n > N THEN 0
    ELSE trace[at + lead + 6 * (n - 1) + 1].v * Pow2(n - 1)
         + ScanValueFrom(at, lead, N, n + 1)

\* the scan entered at at as <<register, width, value>>
ScanItem(at) ==
    IF trace[at].pin = "sendInstruction"
    THEN <<"IR", trace[at].v, ScanValueFrom(at, 20, trace[at].v, 1)>>
    ELSE <<"DR", trace[at].v, ScanValueFrom(at, 15, trace[at].v, 1)>>

\* the initialisation program of JTAG mode
InitProgram ==
    <<<<"IR", 4, 2>>, <<"DR", 4, 4>>, <<"IR", 4, 3>>,
      <<"DR", 23, 4206592>>, <<"DR", 23, 4202496>>, <<"DR", 23, 4194304>>,
      <<"DR", 23, 6488064>>, <<"DR", 23, 6750208>>, <<"DR", 23, 7012352>>,
      <<"DR", 23, 7274496>>, <<"DR", 23, 7536640>>, <<"DR", 23, 7798784>>,
      <<"DR", 23, 8060928>>, <<"DR", 23, 8323072>>,
      <<"IR", 4, 2>>, <<"DR", 4, 1>>, <<"IR", 4, 12>>>>

\* the operation that returned has entered JTAG mode
EnteredJtag ==
    pc = "done" /\ \E i \in 2..Len(modes) : modes[i] = "JTAG"

\* C18: every entry into JTAG mode emits the JTAG magic byte through
\* startMode(), then 8 steps with TMS high, then exactly the scans IR<-2,
\* DR<4><-4, IR<-3, DR<23><-0x403000, 0x402000, 0x400000, 0x630000 ..
\* 0x7F0000, IR<-2, DR<4><-1, IR<-12, before the body of the operation that
\* asked for the mode and before any scan of its own.
C18_JtagEntry ==
    EnteredJtag =>
        LET at == Mark("startMode", 0, 1)
            S == ScanMarks
            scanAt(k) == CHOOSE i \in S : Cardinality({j \in S : j <= i}) = k
            own == CHOOSE i \in 1..Len(trace) : trace[i] = OwnMark
        IN /\ Cardinality(Marks("startMode", 0)) = 1
           /\ Cardinality(Marks("switchMode", 0)) = 1
           /\ Mark("switchMode", 0, 1) < at
           /\ trace[at + 1] = W("TCK", 0)
           /\ \A i \in 1..8 :
                 /\ trace[at + 3 * (i - 1) + 2] = W("TDI", Bit(MAGIC_JTAG, 8 - i))
                 /\ trace[at + 3 * (i - 1) + 3] = W("TCK", 1)
                 /\ trace[at + 3 * (i - 1) + 4] = W("TCK", 0)
           /\ \A n \in 0..(TAP_RESET_STEPS - 1) :
                 /\ trace[at + 30 + 5 * n] = Call("nextState", 0)
                 /\ trace[at + 30 + 5 * n + 1] = W("TMS", 1)
                 /\ trace[at + 30 + 5 * n + 2] = W("TCK", 1)
                 /\ trace[at + 30 + 5 * n + 4] = W("TCK", 0)
           /\ Cardinality(S) > Len(InitProgram)
           /\ scanAt(1) = at + 30 + 5 * TAP_RESET_STEPS
           /\ \A k \in 1..Len(InitProgram) :
                 ScanItem(scanAt(k)) = InitProgram[k]
           /\ scanAt(Len(InitProgram)) < own
           /\ own < scanAt(Len(InitProgram) + 1)

C18_Witness ==
    /\ EnteredJtag
    /\ op = "read_flash_jtag"
    /\ modes = <<"ICP", "READY", "JTAG">>
    /\ ScanItem(Mark("sendData", 23, 11)) = <<"DR", 23, 8323072>>

\* the step is a handler other than rpc_connect answering while connect()
\* has never been called
AnswersUnattached == pc = "idle" /\ ~jtag /\ op' \in EngineOps

\* C19: before the first connect(), every handler that uses the engine
\* causes no pin activity and returns boolean false or the sentinel 0xFF.
C19_NotAttachedSentinel ==
    [][AnswersUnattached =>
          /\ trace' = <<>> /\ lvl' = lvl /\ dir' = dir /\ m_mode' = m_mode
          /\ reply' \in {0, 255}]_vars

\* C19 as amended: before the first connect(), no handler that uses the
\* engine causes pin activity; rpc_checkICP, rpc_checkJTAG, rpc_read16ICP
\* and rpc_read16JTAG return false, rpc_getID and rpc_detectReadMethod
\* return 0, rpc_readByteICP and rpc_readByteJTAG return 0xFF, and
\* rpc_disconnect and rpc_pingICP return nothing.
C19_NotAttachedReplies ==
    [][AnswersUnattached =>
          /\ trace' = <<>> /\ lvl' = lvl /\ dir' = dir /\ m_mode' = m_mode
          /\ m_mode' = "DISCONNECTED" /\ dir' = [q \in Pins |-> 0]
          /\ ~jtag' /\ ret' = -1
          /\ op' \in {"disconnect", "ping_icp"} => reply' = -1
          /\ op' \in {"check_icp", "check_jtag", "get_id",
                       "detect_read_method"} => reply' = 0
          /\ op' \in {"read_flash_icp", "read_flash_jtag"} =>
                reply' = (IF arg'.n = 1 THEN 255 ELSE 0)]_vars

C19_Witness ==
    /\ pc = "done" /\ ~jtag
    /\ op = "read_flash_jtag" /\ arg.n = 1
    /\ reply = 255
    /\ trace = <<>>

\* C20: when disconnect() returns the mode is ICP, whether it was READY, ICP
\* or JTAG before the call and whatever operations preceded it, and the mode
\* stays ICP until another operation is called.
C20_DisconnectLeavesIcp ==
    /\ [](Returned("disconnect") =>
            /\ modes[1] \in {"READY", "ICP", "JTAG"}
            /\ m_mode = "ICP"
            /\ modes[Len(modes)] = "ICP")
    /\ [][(Returned("disconnect") /\ pc' = "idle") => m_mode' = "ICP"]_vars
    /\ [][(m_mode = "ICP" /\ m_mode' # "ICP") => pc \in {"idle", "connect"}]_vars

C20_Witness ==
    /\ Returned("disconnect")
    /\ modes = <<"JTAG", "READY", "ICP">>
    /\ m_mode = "ICP"

\* C21: read_flash_jtag (customBlock = false) ends after exactly n + 1
\* passes of its read loop for every buffer length n of 0..255: while the
\* loop runs it has made at most n + 1 passes, after n + 1 passes its test
\* fails, and when the call has returned it has made n + 1 passes.
C21_ReadLoopEnds ==
    /\ pc = "read" =>
          /\ loop.cyc <= arg.n + 1
          /\ loop.cyc = arg.n + 1 => ~(loop.n < arg.n + 1)
    /\ (pc = "done" /\ loop # NoLoop) => loop.cyc = arg.n + 1

\* the calls of sendData<8> the operation made: the opcode bytes of the
\* bank-select preamble
PreambleScans ==
    {k \in 1..Len(scans) : scans[k].fn = "sendData" /\ scans[k].v = 8}

\* C22: on a build with more than 64 KiB of flash, each of the ten
\* sendData<8> calls of read_flash_jtag's preamble is made while the
\* instruction last loaded is 12, whatever operations came before (get_id
\* and check_jtag included).
C22_PreambleUnderParkedIr ==
    (JtagRead /\ Banked) =>
        /\ Cardinality(PreambleScans) = 10
        /\ \A k \in PreambleScans : scans[k].ir = 12

\* the states the controller can be in when the k-th call recorded in scans
\* ends: those on entry of the call that follows it, or those the operation
\* leaves it in
EndTap(k) == IF k < Len(scans) THEN scans[k + 1].tap ELSE target.tap

\* C23: with the target's TAP controller following IEEE 1149.1, every
\* sendInstruction, sendData and receiveData call and every read cycle of
\* read_flash_jtag begins in Run-Test/Idle and ends in Run-Test/Idle, the
\* first sendInstruction after the 8 TMS-high steps of switch_mode(JTAG)
\* included.
C23_ScansIdleToIdle ==
    pc = "done" =>
        \A k \in 1..Len(scans) :
            scans[k].fn \in ScanFns =>
                /\ scans[k].tap = {"RTI"}
                /\ EndTap(k) = {"RTI"}

\* C24: in a JTAG read on a build with more than 64 KiB of flash and with
\* bank = addr >> 15 > 0, the 16-bit address shifted in read cycle i
\* (0 <= i <= n) is ((addr + i) & 0x7FFF) | 0x8000, bit 15 set in every
\* cycle.
C24_AddressStaysInWindow ==
    (JtagRead /\ Banked /\ jtagBank(arg.addr) > 0) =>
        \A i \in 0..arg.n :
            /\ AddrEventsAreWrites(i)
            /\ ShiftedAddr(i) = ((arg.addr + i) % 32768) + 32768
            /\ Bit(ShiftedAddr(i), 15) = 1

\* the level of TCK before event i of out, old being the levels before out
TckBefore(old, out, i) ==
    LET j == LastDrive(out, 1, i - 1, "TCK")
    IN IF j = 0 THEN old["TCK"] ELSE LevelAfter(out[j])

\* the entries of pulseClock and of nextState in out
PulseCalls(out) == {i \in 1..Len(out) : out[i] = Call("pulseClock", 0)}
StepCalls(out) == {i \in 1..Len(out) : out[i] = Call("nextState", 0)}

\* C25: in every operation that follows connect(), every pulseClock call
\* and every nextState call begins with TCK low and writes TCK high once
\* and then low once (nextState after the write of TMS, with the read of
\* TDO between the two).
C25_ClockCallsStartLow ==
    [][pc' = "done" =>
          /\ \A i \in PulseCalls(trace') :
                /\ TckBefore(lvl, trace', i) = 0
                /\ trace'[i + 1] = W("TCK", 1)
                /\ trace'[i + 2] = W("TCK", 0)
          /\ \A i \in StepCalls(trace') :
                /\ TckBefore(lvl, trace', i) = 0
                /\ trace'[i + 1].k = "W" /\ trace'[i + 1].pin = "TMS"
                /\ trace'[i + 2] = W("TCK", 1)
                /\ trace'[i + 3].k = "R" /\ trace'[i + 3].pin = "TDO"
                /\ trace'[i + 4] = W("TCK", 0)]_vars

\* a flash read over ICP that found the engine in JTAG mode has returned:
\* the 35 nextState calls of reset() and the pulseClock calls of the ICP
\* frames, the first call of each kind made with TCK low
C25_Witness ==
    /\ Returned("read_flash_icp")
    /\ modes = <<"JTAG", "READY", "ICP", "READY">>
    /\ Cardinality(Marks("nextState", 0)) = RESET_JTAG_STEPS
    /\ Cardinality(Marks("pulseClock", 0)) >= 9
    /\ LastDrive(trace, 1, Mark("nextState", 0, 1), "TCK") = 0
    /\ trace[LastDrive(trace, 1, Mark("pulseClock", 0, 1), "TCK")]
           = W("TCK", 0)

=============================================================================
